---- MODULE Spec2Model ----
(***************************************************************************)
(* Model of the MRM retrieval-augmented answering pipeline                 *)
(* (src/api/rag_system.py, class MRMRAGSystem) and of the document         *)
(* endpoints of src/api/app_rag.py that change what the pipeline reads.    *)
(*                                                                         *)
(* One writer (process_documents / load_existing_vector_store) and one    *)
(* query run, interleaved statement group by statement group, over the     *)
(* shared fields self.vector_store and self.retriever.                     *)
(***************************************************************************)
EXTENDS Integers, Sequences, FiniteSets, TLC

VARIABLES
    docs_dir_exists,  \* self.docs_dir.exists()
    docs_dir,         \* the PDF files present under self.docs_dir
    disk,             \* persisted index under vector_store_path, per backend
    vector_store,     \* self.vector_store
    retriever,        \* self.retriever
    calls,            \* number of process/load calls started so far
    w,                \* the running (or last) process/load call
    q                 \* the running (or last) query

vars == <<docs_dir_exists, docs_dir, disk, vector_store, retriever, calls, w, q>>

----------------------------------------------------------------------------
(* Bounds of the model *)

MaxCalls == 2        \* process/load calls per behaviour
ChunksPerFile == 9   \* chunks the splitter makes of one loaded PDF
MaxContextLen == 3   \* length of the contexts _generate_answer is tried on

(* Program constants *)

TopK == 8            \* search_kwargs={"k": 8}
ContextLimit == 5    \* state.documents[:5]

----------------------------------------------------------------------------
(* Inputs *)

Pdfs == {"a.pdf"}
Paths == Pdfs \cup {"n.txt"}
Backends == {"qdrant", "faiss"}
StoreTypes == Backends \cup {"chroma"}
Questions == {"qa", "qb"}
Errors == {"boom"}

IsPdf(path) == path \in Pdfs          \* file_path.lower().endswith('.pdf')

----------------------------------------------------------------------------
(* Values *)

NoIndex == [backend |-> "none", build |-> 0, content |-> {}]      \* None
NoRetriever == [rid |-> 0, store |-> NoIndex]                     \* None

Min(a, b) == IF a <= b THEN a ELSE b

\* The chunks of one file, in document order.
FileChunks(f) == [i \in 1..ChunksPerFile |-> <<f, i>>]

Reverse(s) == [i \in 1..Len(s) |-> s[Len(s) + 1 - i]]

\* The chunks of an index, nearest to the question first.
RECURSIVE Nearest(_, _)
Nearest(files, question) ==
    IF files = {} THEN <<>>
    ELSE LET f == CHOOSE x \in files : TRUE
         IN (IF question = "qa" THEN FileChunks(f) ELSE Reverse(FileChunks(f)))
            \o Nearest(files \ {f}, question)

\* base_retriever: similarity search, the k nearest chunks of the wrapped index.
SimilaritySearch(store, question) ==
    LET all == Nearest(store.content, question)
    IN SubSeq(all, 1, Min(TopK, Len(all)))

\* base_compressor: the extractor drops the candidates it finds irrelevant to
\* the query: here none of them, all of them, or all but the farthest one.
CompressionOutcomes(cands) ==
    {SubSeq(cands, 1, m) : m \in {0, Len(cands)}}
    \cup (IF cands = <<>> THEN {} ELSE {<<cands[Len(cands)]>>})

\* self.retriever.get_relevant_documents(query), when it returns.
RelevantDocuments(r, question) ==
    CompressionOutcomes(SimilaritySearch(r.store, question))

----------------------------------------------------------------------------
(* Pipeline state and texts *)

Sentinel == <<[k |-> "sentinel", n |-> 0, c |-> <<"", 0>>]>>   \* "No relevant documents found."
EmptyText == <<>>                                               \* ""

Refusal == [k |-> "refusal", err |-> ""]
LlmAnswer == [k |-> "llm", err |-> ""]
GenError(e) == [k |-> "gen_error", err |-> e]      \* f"Error generating response: {e}"
QueryError(e) == [k |-> "query_error", err |-> e]  \* f"Error processing query: {e}"

NoResult == [none |-> TRUE]

IdleQuery ==
    [pc |-> "idle", question |-> "", documents |-> <<>>, context |-> EmptyText,
     answer |-> [k |-> "empty", err |-> ""], metadata |-> [empty |-> TRUE],
     start |-> NoRetriever, used |-> NoRetriever, replaced |-> FALSE,
     retrieve_failed |-> FALSE,
     llm_calls |-> 0, llm_failed |-> FALSE, trace |-> <<>>, raised |-> FALSE,
     result |-> NoResult, rejected |-> FALSE, status |-> 0]

IdleWriter ==
    [op |-> "none", pc |-> "idle", call |-> 0, store_type |-> "", loaded |-> {},
     chunks |-> {}, stages |-> <<>>, found |-> FALSE, ret |-> "none", status |-> 0]

\* An endpoint's "except Exception as e: raise HTTPException(status_code=500, ...)":
\* the status the client gets when an exception with the given status, an
\* HTTPException included, is raised inside the endpoint's try block.
ExceptException(raised) == 500

\* The status with which the endpoint of a process/load call (upload_pdf,
\* process_documents, load_vector_store) answers its return value r.
HttpStatus(op, r) ==
    IF r = "success" THEN 200
    ELSE IF op = "load" THEN ExceptException(404)
    ELSE ExceptException(500)

\* What stays of a call once it has returned r, and its endpoint's status.
Returned(call, r) ==
    [IdleWriter EXCEPT !.op = call.op, !.loaded = call.loaded, !.stages = call.stages,
        !.found = call.found, !.ret = r, !.status = HttpStatus(call.op, r)]

----------------------------------------------------------------------------
(* Construction *)

PriorIndex(b) == [backend |-> b, build |-> 0, content |-> {"a.pdf"}]

Init ==
    /\ docs_dir_exists \in BOOLEAN
    /\ docs_dir \in (IF docs_dir_exists THEN {{}, Pdfs} ELSE {{}})
    /\ disk \in {[b \in Backends |-> NoIndex], [b \in Backends |-> PriorIndex(b)]}
    /\ vector_store = NoIndex
    /\ retriever = NoRetriever
    /\ calls = 0
    /\ w = IdleWriter
    /\ q = IdleQuery

----------------------------------------------------------------------------
(* Document Store Manager: load -> chunk -> index *)

\* load_documents: the sets of files whose pages it can return.
LoadOutcomes(file_paths, dir, dir_exists) ==
    IF file_paths # {}
    THEN \* each .pdf path is loaded, or skipped when its loader raises
         SUBSET {p \in file_paths : IsPdf(p) /\ p \in dir}
    ELSE IF dir_exists
         THEN {dir, {}}     \* DirectoryLoader.load() returns, or raises
         ELSE {{}}

\* chunk_documents: the chunks of the loaded files, or [] when splitting raises.
ChunkOutcomes(documents) == {documents, {}}

\* ProcessLoadChunk without "if not documents: return False".
ProcessLoadChunk_NoEmptyCheck(file_paths, store_type, dir, dir_exists) ==
    \E documents \in LoadOutcomes(file_paths, dir, dir_exists) :
        /\ calls' = calls + 1
        /\ w' = [IdleWriter EXCEPT !.op = "process", !.call = calls + 1,
                    !.store_type = store_type, !.loaded = documents,
                    !.stages = <<"load", "chunk">>, !.chunks = documents,
                    !.pc = "create_index"]

\* process_documents up to the call of create_vector_store (steps 1 and 2),
\* reading the docs directory as dir.
ProcessLoadChunk(file_paths, store_type, dir, dir_exists) ==
    \E documents \in LoadOutcomes(file_paths, dir, dir_exists) :
      \E chunks \in ChunkOutcomes(documents) :
        LET call == [IdleWriter EXCEPT !.op = "process", !.call = calls + 1,
                        !.store_type = store_type, !.loaded = documents]
        IN /\ calls' = calls + 1
           /\ IF documents = {}
              THEN w' = Returned([call EXCEPT !.stages = <<"load">>], "failure")
              ELSE IF chunks = {}
              THEN w' = Returned([call EXCEPT !.stages = <<"load", "chunk">>], "failure")
              ELSE w' = [call EXCEPT !.stages = <<"load", "chunk">>, !.chunks = chunks,
                            !.pc = "create_index"]

\* process_documents(file_paths, chunk_size, store_type), steps 1 and 2.
ProcessDocuments(file_paths, store_type) ==
    /\ w.pc = "idle"
    /\ calls < MaxCalls
    /\ ProcessLoadChunk(file_paths, store_type, docs_dir, docs_dir_exists)
    /\ UNCHANGED <<docs_dir_exists, docs_dir, disk, vector_store, retriever, q>>

\* upload_pdf: saves the file under docs/ and processes that one path into qdrant.
UploadPdf(f) ==
    /\ w.pc = "idle"
    /\ calls < MaxCalls
    /\ IsPdf(f)
    /\ docs_dir_exists
    /\ docs_dir' = docs_dir \cup {f}
    /\ ProcessLoadChunk({f}, "qdrant", docs_dir \cup {f}, docs_dir_exists)
    /\ UNCHANGED <<docs_dir_exists, disk, vector_store, retriever, q>>

\* The index create_vector_store builds from this call's chunks.
BuiltIndex(call) == [backend |-> call.store_type, build |-> call.call, content |-> call.chunks]

\* create_vector_store, the store_type branch: build the index, assign
\* self.vector_store, persist it.
CreateIndex ==
    /\ w.pc = "create_index"
    /\ \/ /\ w.store_type = "qdrant"
          /\ \/ /\ vector_store' = BuiltIndex(w)          \* Qdrant.from_documents returns
                /\ disk' = [disk EXCEPT !["qdrant"] = BuiltIndex(w)]
                /\ w' = [w EXCEPT !.pc = "create_retriever", !.stages = @ \o <<"index">>]
             \/ /\ w' = Returned([w EXCEPT !.stages = @ \o <<"index">>], "failure")  \* it raises
                /\ UNCHANGED <<vector_store, disk>>
       \/ /\ w.store_type = "faiss"
          /\ \/ /\ vector_store' = BuiltIndex(w)          \* from_documents and save_local return
                /\ disk' = [disk EXCEPT !["faiss"] = BuiltIndex(w)]
                /\ w' = [w EXCEPT !.pc = "create_retriever", !.stages = @ \o <<"index">>]
             \/ /\ vector_store' = BuiltIndex(w)          \* save_local raises
                /\ w' = Returned([w EXCEPT !.stages = @ \o <<"index">>], "failure")
                /\ UNCHANGED disk
             \/ /\ w' = Returned([w EXCEPT !.stages = @ \o <<"index">>], "failure")  \* from_documents raises
                /\ UNCHANGED <<vector_store, disk>>
       \/ /\ w.store_type \notin Backends                 \* neither branch is taken
          /\ w' = [w EXCEPT !.pc = "create_retriever", !.stages = @ \o <<"index">>]
          /\ UNCHANGED <<vector_store, disk>>
    /\ UNCHANGED <<docs_dir_exists, docs_dir, retriever, calls, q>>

\* NewRetriever assigned before its base retriever wraps the index.
NewRetriever_Unwrapped(call) == [rid |-> call.call, store |-> NoIndex]

\* The retriever both create_vector_store and load_existing_vector_store build:
\* a compression retriever over self.vector_store.as_retriever(k = 8).
NewRetriever(call) == [rid |-> call.call, store |-> vector_store]

\* InstallRetriever whose failure path resets self.retriever to None.
InstallRetriever_ClearsOnFailure ==
    \/ /\ vector_store # NoIndex
       /\ retriever' = NewRetriever(w)
       /\ w' = Returned(w, "success")
    \/ /\ w' = Returned(w, "failure")
       /\ retriever' = NoRetriever

\* The assignment of self.retriever, or the exception raised instead of it.
InstallRetriever ==
    \/ /\ vector_store # NoIndex
       /\ retriever' = NewRetriever(w)
       /\ w' = Returned(w, "success")
    \/ /\ w' = Returned(w, "failure")                       \* a constructor raises
       /\ UNCHANGED retriever

\* create_vector_store, the retriever part, and process_documents' return.
CreateRetriever ==
    /\ w.pc = "create_retriever"
    /\ InstallRetriever
    /\ UNCHANGED <<docs_dir_exists, docs_dir, disk, vector_store, calls, q>>

\* load_existing_vector_store(store_type), the store_type branch.
LoadExisting(store_type) ==
    /\ w.pc = "idle"
    /\ calls < MaxCalls
    /\ calls' = calls + 1
    /\ LET found == store_type \in Backends /\ disk[store_type] # NoIndex
           call == [IdleWriter EXCEPT !.op = "load", !.call = calls + 1,
                       !.store_type = store_type, !.found = found]
       IN \/ /\ found                                   \* the path exists; the store opens
             /\ vector_store' = disk[store_type]
             /\ w' = [call EXCEPT !.pc = "load_retriever"]
          \/ /\ found                                   \* the path exists; opening raises
             /\ w' = Returned(call, "failure")
             /\ UNCHANGED vector_store
          \/ /\ ~found                                  \* nothing is assigned
             /\ w' = [call EXCEPT !.pc = "load_retriever"]
             /\ UNCHANGED vector_store
    /\ UNCHANGED <<docs_dir_exists, docs_dir, disk, retriever, q>>

\* load_existing_vector_store from "if self.vector_store:" on.
LoadRetriever ==
    /\ w.pc = "load_retriever"
    /\ IF vector_store # NoIndex
       THEN InstallRetriever
       ELSE /\ w' = Returned(w, "failure")
            /\ UNCHANGED retriever
    /\ UNCHANGED <<docs_dir_exists, docs_dir, disk, vector_store, calls, q>>

\* DeleteDocument that also drops the active index and retriever.
DeleteDocument_Purges(filename) ==
    /\ filename \in docs_dir
    /\ IsPdf(filename)
    /\ docs_dir' = docs_dir \ {filename}
    /\ vector_store' = NoIndex
    /\ retriever' = NoRetriever
    /\ UNCHANGED <<docs_dir_exists, disk, calls, w, q>>

\* delete_document(filename): unlinks an existing .pdf under docs/.
DeleteDocument(filename) ==
    /\ filename \in docs_dir
    /\ IsPdf(filename)
    /\ docs_dir' = docs_dir \ {filename}
    /\ UNCHANGED <<docs_dir_exists, disk, vector_store, retriever, calls, w, q>>

----------------------------------------------------------------------------
(* Read-only reports on the current state *)

\* health_check: the readiness it reports.
HealthCheck == [status |-> "healthy", rag_system_ready |-> retriever # NoRetriever]

\* The info dictionary get_system_info builds; the PDF keys are added only
\* when the docs directory exists.
SystemInfo ==
    LET info == [vector_store_type |-> IF vector_store # NoIndex THEN "qdrant" ELSE "none",
                 retriever_initialized |-> retriever # NoRetriever]
    IN IF docs_dir_exists
       THEN info @@ [pdf_files_count |-> Cardinality(docs_dir), pdf_files |-> docs_dir]
       ELSE info

\* get_system_info(): the info dictionary, or the error dictionary of its
\* "except Exception".
GetSystemInfo == {SystemInfo} \cup {[error |-> e] : e \in Errors}

----------------------------------------------------------------------------
(* Pipeline Orchestrator: retrieve -> contextualize -> generate -> END *)

Stages == <<"retrieve", "contextualize", "generate">>

Whitespace == [k |-> "ws", n |-> 0, c |-> <<"", 0>>]

\* str.strip(): the text without its leading and trailing whitespace.
RECURSIVE LStrip(_)
LStrip(text) ==
    IF text # <<>> /\ Head(text) = Whitespace THEN LStrip(Tail(text)) ELSE text

RECURSIVE RStrip(_)
RStrip(text) ==
    IF text # <<>> /\ text[Len(text)] = Whitespace
    THEN RStrip(SubSeq(text, 1, Len(text) - 1))
    ELSE text

Strip(text) == RStrip(LStrip(text))

\* query(question): the initial state and the entry point of the workflow.
QueryStart(question) ==
    /\ q.pc \in {"idle", "done"}
    /\ q' = [IdleQuery EXCEPT !.pc = "retrieve", !.question = question,
                !.start = retriever]
    /\ UNCHANGED <<docs_dir_exists, docs_dir, disk, vector_store, retriever, calls, w>>

\* rag_query: answers without calling query when no retriever is active.
RagQuery(question) ==
    IF retriever = NoRetriever
    THEN /\ q.pc \in {"idle", "done"}
         /\ q' = [IdleQuery EXCEPT !.rejected = TRUE, !.status = ExceptException(400)]
         /\ UNCHANGED <<docs_dir_exists, docs_dir, disk, vector_store, retriever, calls, w>>
    ELSE QueryStart(question)

\* _retrieve_documents: "if not self.retriever".
RetrieveCheck ==
    /\ q.pc = "retrieve"
    /\ IF retriever = NoRetriever
       THEN q' = [q EXCEPT !.pc = "contextualize", !.trace = @ \o <<"retrieve">>,
                     !.documents = <<>>, !.retrieve_failed = TRUE,
                     !.metadata = [error |-> "No retriever initialized"]]
       ELSE q' = [q EXCEPT !.pc = "retrieve_call", !.trace = @ \o <<"retrieve">>]
    /\ UNCHANGED <<docs_dir_exists, docs_dir, disk, vector_store, retriever, calls, w>>

\* RetrieveCall without its "except Exception": the error reaches query's handler.
RetrieveCall_Raises ==
    /\ q.pc = "retrieve_call"
    /\ \/ /\ retriever # NoRetriever
          /\ \E docs \in RelevantDocuments(retriever, q.question) :
               q' = [q EXCEPT !.pc = "contextualize", !.documents = docs,
                        !.used = retriever, !.start = NoRetriever,
                        !.replaced = (q.start # NoRetriever /\ retriever # q.start),
                        !.metadata = [retrieved_count |-> Len(docs), timestamp |-> "now"]]
       \/ \E e \in Errors :
               q' = [q EXCEPT !.pc = "done", !.used = retriever,
                        !.start = NoRetriever,
                        !.replaced = (q.start # NoRetriever /\ retriever # q.start),
                        !.retrieve_failed = TRUE, !.raised = TRUE,
                        !.result = [answer |-> QueryError(e), context |-> EmptyText,
                                    documents_retrieved |-> 0, metadata |-> [error |-> e],
                                    timestamp |-> "now"]]
    /\ UNCHANGED <<docs_dir_exists, docs_dir, disk, vector_store, retriever, calls, w>>

\* _retrieve_documents: the try block, which reads self.retriever again.
RetrieveCall ==
    /\ q.pc = "retrieve_call"
    /\ \/ /\ retriever # NoRetriever
          /\ \E docs \in RelevantDocuments(retriever, q.question) :
               q' = [q EXCEPT !.pc = "contextualize", !.documents = docs,
                        !.used = retriever, !.start = NoRetriever,
                        !.replaced = (q.start # NoRetriever /\ retriever # q.start),
                        !.metadata = [retrieved_count |-> Len(docs), timestamp |-> "now"]]
       \/ \E e \in Errors :                              \* the call raises
               q' = [q EXCEPT !.pc = "contextualize", !.documents = <<>>,
                        !.used = retriever, !.start = NoRetriever,
                        !.replaced = (q.start # NoRetriever /\ retriever # q.start),
                        !.retrieve_failed = TRUE,
                        !.metadata = [error |-> e]]
    /\ UNCHANGED <<docs_dir_exists, docs_dir, disk, vector_store, retriever, calls, w>>

\* ContextOf leaving the initial "" in place when nothing was retrieved.
ContextOf_EmptyText(documents) ==
    IF documents = <<>>
    THEN EmptyText
    ELSE [i \in 1..Min(ContextLimit, Len(documents)) |->
             [k |-> "doc", n |-> i, c |-> documents[i]]]

\* ContextOf without the "[:5]" limit: every retrieved document gets an entry.
ContextOf_Unlimited(documents) ==
    IF documents = <<>>
    THEN Sentinel
    ELSE [i \in 1..Len(documents) |-> [k |-> "doc", n |-> i, c |-> documents[i]]]

\* The context _contextualize_query builds: one entry "Document n:" with the
\* page content of the n-th retrieved document, for the first five documents.
ContextOf(documents) ==
    IF documents = <<>>
    THEN Sentinel
    ELSE [i \in 1..Min(ContextLimit, Len(documents)) |->
             [k |-> "doc", n |-> i, c |-> documents[i]]]

\* Contextualize with its edge leading back to the entry point.
Contextualize_LoopsBack ==
    /\ q.pc = "contextualize"
    /\ q' = [q EXCEPT !.pc = "retrieve", !.trace = @ \o <<"contextualize">>,
                !.context = ContextOf(q.documents)]
    /\ UNCHANGED <<docs_dir_exists, docs_dir, disk, vector_store, retriever, calls, w>>

\* _contextualize_query.
Contextualize ==
    /\ q.pc = "contextualize"
    /\ q' = [q EXCEPT !.pc = "generate", !.trace = @ \o <<"contextualize">>,
                !.context = ContextOf(q.documents)]
    /\ UNCHANGED <<docs_dir_exists, docs_dir, disk, vector_store, retriever, calls, w>>

\* query's "except Exception": the payload returned when an exception escapes
\* workflow.invoke. The retrieve and generate nodes catch every exception
\* themselves; the contextualize node reads the retrieved documents outside
\* any try.
QueryExcept ==
    /\ q.pc = "contextualize"
    /\ q.documents # <<>>
    /\ \E e \in Errors :
         q' = [q EXCEPT !.pc = "done", !.trace = @ \o <<"contextualize">>,
                  !.raised = TRUE,
                  !.result = [answer |-> QueryError(e), context |-> EmptyText,
                              documents_retrieved |-> 0, metadata |-> [error |-> e],
                              timestamp |-> "now"]]
    /\ UNCHANGED <<docs_dir_exists, docs_dir, disk, vector_store, retriever, calls, w>>

\* NoContext comparing the context as it is, without strip().
NoContext_Exact(context) == context = EmptyText \/ context = Sentinel

\* _generate_answer's gate: "not state.context or state.context.strip() == ...".
NoContext(context) == context = EmptyText \/ Strip(context) = Sentinel

\* _generate_answer: the answers it can return for a context, with the number
\* of language-model calls made.
GenerateOutcomes(context) ==
    IF NoContext(context)
    THEN {[answer |-> Refusal, llm_calls |-> 0, llm_failed |-> FALSE]}
    ELSE {[answer |-> LlmAnswer, llm_calls |-> 1, llm_failed |-> FALSE]}
         \cup {[answer |-> GenError(e), llm_calls |-> 1, llm_failed |-> TRUE] : e \in Errors}

\* Generate without its "except Exception": a failed model call reaches
\* query's handler.
Generate_Raises ==
    /\ q.pc = "generate"
    /\ \E out \in GenerateOutcomes(q.context) :
         q' = [q EXCEPT !.pc = "done", !.trace = @ \o <<"generate">>,
                  !.answer = out.answer, !.llm_calls = @ + out.llm_calls,
                  !.llm_failed = out.llm_failed,
                  !.raised = out.llm_failed,
                  !.result = IF out.llm_failed
                             THEN [answer |-> QueryError(out.answer.err),
                                   context |-> EmptyText, documents_retrieved |-> 0,
                                   metadata |-> [error |-> out.answer.err],
                                   timestamp |-> "now"]
                             ELSE [answer |-> out.answer, context |-> q.context,
                                   documents_retrieved |-> Len(q.documents),
                                   metadata |-> q.metadata, timestamp |-> "now"]]
    /\ UNCHANGED <<docs_dir_exists, docs_dir, disk, vector_store, retriever, calls, w>>

\* _generate_answer, END, and query's return of the final state.
Generate ==
    /\ q.pc = "generate"
    /\ \E out \in GenerateOutcomes(q.context) :
         q' = [q EXCEPT !.pc = "done", !.trace = @ \o <<"generate">>,
                  !.answer = out.answer, !.llm_calls = @ + out.llm_calls,
                  !.llm_failed = out.llm_failed,
                  !.result = [answer |-> out.answer, context |-> q.context,
                              documents_retrieved |-> Len(q.documents),
                              metadata |-> q.metadata, timestamp |-> "now"]]
    /\ UNCHANGED <<docs_dir_exists, docs_dir, disk, vector_store, retriever, calls, w>>

----------------------------------------------------------------------------

Next ==
    \/ \E paths \in SUBSET Paths, st \in StoreTypes : ProcessDocuments(paths, st)
    \/ \E f \in Paths : UploadPdf(f)
    \/ CreateIndex
    \/ CreateRetriever
    \/ \E st \in StoreTypes : LoadExisting(st)
    \/ LoadRetriever
    \/ \E f \in Paths : DeleteDocument(f)
    \/ \E question \in Questions : QueryStart(question)
    \/ \E question \in Questions : RagQuery(question)
    \/ RetrieveCheck
    \/ RetrieveCall
    \/ Contextualize
    \/ QueryExcept
    \/ Generate

Spec == Init /\ [][Next]_vars

----------------------------------------------------------------------------
(* _generate_answer on its own: every short context, one call each *)

LowerSentinel == [k |-> "sentinel_lc", n |-> 0, c |-> <<"", 0>>]   \* "no relevant documents found."
DocText == [k |-> "doc", n |-> 1, c |-> <<"a.pdf", 1>>]

Tokens == {Whitespace, Sentinel[1], LowerSentinel, DocText}

Contexts == UNION {[1..n -> Tokens] : n \in 0..MaxContextLen}

InitGen ==
    /\ docs_dir_exists = TRUE
    /\ docs_dir = {}
    /\ disk = [b \in Backends |-> NoIndex]
    /\ vector_store = NoIndex
    /\ retriever = NoRetriever
    /\ calls = 0
    /\ w = IdleWriter
    /\ \E question \in Questions, context \in Contexts :
         q = [IdleQuery EXCEPT !.pc = "generate", !.question = question,
                 !.context = context, !.trace = <<"retrieve", "contextualize">>]

NextGen == Generate

SpecGen == InitGen /\ [][NextGen]_vars

----------------------------------------------------------------------------
(* _contextualize_query on its own: every run of retrieved documents the
   compressor can leave of the candidates, then generate and return *)

\* What the compressor can keep of the candidates: here every unbroken run.
Retrievable(question) ==
    LET cands == SimilaritySearch(PriorIndex("qdrant"), question)
    IN {SubSeq(cands, i, j) : i \in 1..Len(cands), j \in 1..Len(cands)}

InitCtx ==
    /\ docs_dir_exists = TRUE
    /\ docs_dir = Pdfs
    /\ disk = [b \in Backends |-> PriorIndex(b)]
    /\ vector_store = PriorIndex("qdrant")
    /\ retriever = [rid |-> 1, store |-> PriorIndex("qdrant")]
    /\ calls = 1
    /\ w = Returned([IdleWriter EXCEPT !.op = "load", !.found = TRUE], "success")
    /\ \E question \in Questions : \E docs \in Retrievable(question) :
         q = [IdleQuery EXCEPT !.pc = "contextualize", !.question = question,
                 !.documents = docs, !.used = retriever,
                 !.metadata = [retrieved_count |-> Len(docs), timestamp |-> "now"],
                 !.trace = <<"retrieve">>]

NextCtx == Contextualize \/ QueryExcept \/ Generate

SpecCtx == InitCtx /\ [][NextCtx]_vars

----------------------------------------------------------------------------
(* Properties *)

ResultKeys == {"answer", "context", "documents_retrieved", "metadata", "timestamp"}

HasError(metadata) == "error" \in DOMAIN metadata /\ metadata.error # ""

\* C1: a process_documents call that loads zero documents returns failure in
\* that very step, having run the load stage only, and leaves self.retriever,
\* self.vector_store and the persisted indexes exactly as they were.
C1_ZeroDocumentsAborts ==
    [][(w.pc = "idle" /\ calls' = calls + 1 /\ w'.op = "process" /\ w'.loaded = {})
         => /\ w'.ret = "failure"
            /\ w'.pc = "idle"
            /\ w'.stages = <<"load">>
            /\ UNCHANGED <<vector_store, retriever, disk>>]_vars

\* A process call has returned failure with zero documents loaded while an
\* earlier call's retriever is active.
C1_Witness ==
    /\ w.op = "process" /\ w.ret = "failure" /\ w.loaded = {}
    /\ retriever # NoRetriever

\* C2: when RETRIEVE cannot retrieve (no retriever, or the retriever call
\* raises), the document list is empty, metadata carries a non-empty error,
\* no exception reaches query's handler, and the query returns only after
\* CONTEXTUALIZE and GENERATE have run, with that error in its result.
C2_RetrieveFailureAbsorbed ==
    q.retrieve_failed =>
        /\ q.documents = <<>>
        /\ HasError(q.metadata)
        /\ ~q.raised
        /\ q.pc \in {"contextualize", "generate", "done"}
        /\ q.pc = "done" =>
             /\ q.trace = Stages
             /\ DOMAIN q.result = ResultKeys
             /\ q.result.documents_retrieved = 0
             /\ HasError(q.result.metadata)

\* A query whose retriever call raised has returned.
C2_Witness ==
    q.retrieve_failed /\ q.pc = "done" /\ q.used # NoRetriever

\* A query made with no retriever active has returned.
C2_WitnessNoRetriever ==
    q.retrieve_failed /\ q.pc = "done" /\ q.used = NoRetriever /\ retriever = NoRetriever

\* C3 as stated: every result with documents_retrieved = 0 has the sentinel as
\* context and the refusal as answer.
C3_Original ==
    (q.pc = "done" /\ q.result.documents_retrieved = 0)
        => (q.result.context = Sentinel /\ q.result.answer = Refusal)

\* C3, amended: every result the workflow returns (no exception reached
\* query's handler) with documents_retrieved = 0 has the sentinel as context
\* and the refusal as answer, whatever the question.
C3_SentinelWhenNothingRetrieved ==
    (q.pc = "done" /\ ~q.raised /\ q.result.documents_retrieved = 0)
        => (q.result.context = Sentinel /\ q.result.answer = Refusal)

\* The retriever was called, returned nothing, and the query has returned.
C3_Witness ==
    /\ q.pc = "done" /\ ~q.raised /\ q.result.documents_retrieved = 0
    /\ q.used # NoRetriever /\ ~q.retrieve_failed

\* C4: load_existing_vector_store returns failure whenever no persisted index
\* exists at the path of the requested backend.
C4_LoadFailsWithoutPersistedIndex ==
    (w.op = "load" /\ w.ret # "none" /\ ~w.found) => w.ret = "failure"

\* C5: when process_documents returns success, the active retriever is the
\* one this call constructed, and it wraps the index this call built from its
\* own chunks.
C5_SuccessInstallsOwnIndex ==
    [][(w.op = "process" /\ w.ret = "none" /\ w'.ret = "success")
         => retriever' = [rid |-> w.call, store |-> BuiltIndex(w)]]_vars

\* C6: the stages a query has executed are always an initial part of
\* retrieve, contextualize, generate, each at most once and in that order; a
\* query is done only after all three, or after an exception surfaced from
\* the contextualize stage; a query under way always has its next stage to run.
C6_StagesInOrder ==
    /\ q.pc \notin {"idle", "done"}
         => ENABLED (RetrieveCheck \/ RetrieveCall \/ Contextualize \/ Generate)
    /\ \E n \in 0..Len(Stages) : q.trace = SubSeq(Stages, 1, n)
    /\ q.pc = "retrieve" => q.trace = <<>>
    /\ q.pc \in {"retrieve_call", "contextualize"} => q.trace = <<"retrieve">>
    /\ q.pc = "generate" => q.trace = <<"retrieve", "contextualize">>
    /\ q.pc = "done" =>
         \/ ~q.raised /\ q.trace = Stages
         \/ q.raised /\ q.trace = <<"retrieve", "contextualize">>

\* A query has run all three stages and returned.
C6_Witness ==
    q.pc = "done" /\ ~q.raised /\ q.trace = Stages /\ q.result.documents_retrieved > 0

\* The refusal was returned without a call of the language model.
RefusedWithoutModel == q.answer = Refusal /\ q.llm_calls = 0

\* The context is the sentinel with nothing but whitespace around it.
PaddedSentinel(context) ==
    \E i \in 1..Len(context) :
        /\ context[i] = Sentinel[1]
        /\ \A j \in (1..Len(context)) \ {i} : context[j] = Whitespace

\* C7 as stated: _generate_answer refuses without calling the model exactly
\* when the context is the sentinel, character for character.
C7_Original ==
    q.pc = "done" => (RefusedWithoutModel <=> q.context = Sentinel)

\* C7, amended: _generate_answer refuses without calling the model exactly
\* when the context is empty or is the sentinel once leading and trailing
\* whitespace is stripped (the comparison is case-sensitive); for every other
\* context the model is called once.
C7_GateOne ==
    q.pc = "done" =>
        /\ RefusedWithoutModel <=> (q.context = EmptyText \/ PaddedSentinel(q.context))
        /\ ~RefusedWithoutModel => q.llm_calls = 1

\* The gate refused a sentinel that has whitespace around it.
C7_Witness ==
    /\ q.pc = "done" /\ RefusedWithoutModel
    /\ q.context # Sentinel /\ q.context # EmptyText

\* C8: when the language-model call fails in GENERATE, no exception reaches
\* query's handler: the result has all five keys, its answer carries the
\* error, and its context and documents_retrieved are those of the retrieved
\* documents.
C8_ModelFailureAbsorbed ==
    (q.pc = "done" /\ q.llm_failed) =>
        /\ ~q.raised
        /\ DOMAIN q.result = ResultKeys
        /\ q.result.answer \in {GenError(e) : e \in Errors}
        /\ q.documents # <<>>
        /\ q.result.documents_retrieved = Len(q.documents)
        /\ q.result.context = q.context
        /\ Len(q.result.context) = Min(ContextLimit, Len(q.documents))
        /\ \A i \in 1..Len(q.result.context) : q.result.context[i].c = q.documents[i]

\* The model call failed on a context of more documents than it shows.
C8_Witness ==
    q.pc = "done" /\ q.llm_failed /\ q.result.documents_retrieved > ContextLimit

\* C9: a query started with a retriever active always reaches the retriever
\* call, which runs against the retriever assigned to self.retriever at that
\* moment: the one the query started with or one installed since, never None
\* and never one without an index; and no step of a query changes
\* self.retriever, self.vector_store or the persisted indexes.
C9_QueryReadsInstalledRetriever ==
    [][/\ (q.pc = "retrieve" /\ q.start # NoRetriever /\ q'.pc # "retrieve")
            => q'.pc = "retrieve_call"
       /\ (q.pc = "retrieve_call" /\ q'.pc = "contextualize" /\ q.start # NoRetriever)
            => /\ q'.used = retriever
               /\ q'.used # NoRetriever
               /\ q'.used.store # NoIndex
               /\ q'.used = q.start \/ q'.used.rid > q.start.rid
       /\ q' # q => UNCHANGED <<retriever, vector_store, disk>>]_vars

\* A query started under one retriever has retrieved from its replacement.
C9_Witness ==
    q.replaced /\ q.used # NoRetriever /\ q.documents # <<>>

\* C10: a step that deletes a document file leaves self.vector_store,
\* self.retriever and the persisted indexes unchanged, so every question
\* retrieves after it what it retrieved before it.
C10_DeleteLeavesIndex ==
    [][(docs_dir' # docs_dir /\ docs_dir' \subseteq docs_dir)
         => /\ UNCHANGED <<vector_store, retriever, disk>>
            /\ \A question \in Questions :
                 RelevantDocuments(retriever', question)
                   = RelevantDocuments(retriever, question)]_vars

\* A query has retrieved chunks of a file this run indexed and that is no
\* longer in the docs directory.
C10_Witness ==
    /\ q.pc = "done" /\ q.documents # <<>>
    /\ q.used.store.build >= 1
    /\ \E i \in 1..Len(q.documents) : q.documents[i][1] \notin docs_dir

\* The entries of a context that carry a document.
Entries(context) == {i \in 1..Len(context) : context[i].k = "doc"}

\* C11: once CONTEXTUALIZE has run on n retrieved documents, n > 0, the
\* context has exactly min(n, 5) entries, the i-th labelled "Document i" and
\* carrying the i-th retrieved document; no document beyond the fifth is in
\* it, and the result still reports documents_retrieved = n. On no documents
\* the context is the sentinel.
C11_ContextOfFirstFive ==
    (q.pc \in {"generate", "done"} /\ ~q.raised) =>
        LET n == Len(q.documents)
        IN /\ n = 0 => q.context = Sentinel
           /\ n > 0 =>
                /\ Len(q.context) = Min(n, ContextLimit)
                /\ Entries(q.context) = 1..Min(n, ContextLimit)
                /\ \A i \in Entries(q.context) :
                     q.context[i].n = i /\ q.context[i].c = q.documents[i]
                /\ \A j \in (ContextLimit + 1)..n :
                     \A i \in 1..Len(q.context) : q.context[i].c # q.documents[j]
           /\ q.pc = "done" =>
                /\ q.result.context = q.context
                /\ q.result.documents_retrieved = n

\* A query has returned six retrieved documents, five of them in its context.
C11_Witness ==
    /\ q.pc = "done" /\ ~q.raised
    /\ Len(q.documents) = ContextLimit + 1
    /\ Len(q.result.context) = ContextLimit
    /\ q.result.documents_retrieved = ContextLimit + 1

\* A query has returned exactly five retrieved documents, all in its context.
C11_WitnessAtLimit ==
    /\ q.pc = "done" /\ ~q.raised
    /\ Len(q.documents) = ContextLimit /\ Len(q.result.context) = ContextLimit

\* C12: load_vector_store answers a failed load_existing_vector_store with
\* status 404, and rag_query answers with status 400 when no retriever is
\* active; neither answers 500.
C12_SpecificStatus ==
    /\ (w.op = "load" /\ w.ret = "failure") => w.status = 404
    /\ q.rejected => q.status = 400

\* C13: whenever no process/load call is under way, the active retriever wraps
\* the current index handle: self.vector_store is never left replaced while
\* self.retriever is absent or still wraps the index of before the call.
C13_RetrieverWrapsCurrentIndex ==
    w.pc = "idle" => retriever.store = vector_store

\* Readiness as health_check and every get_system_info answer report it.
ReportsReady ==
    /\ HealthCheck.rag_system_ready
    /\ \A info \in GetSystemInfo :
         "retriever_initialized" \in DOMAIN info => info.retriever_initialized

\* C14: no step of a process_documents, load_existing_vector_store, query or
\* delete-document operation, successful or failing, makes an installed
\* retriever absent: rag_system_ready and retriever_initialized never go from
\* true back to false.
C14_ReadinessMonotone ==
    [][/\ retriever # NoRetriever => retriever' # NoRetriever
       /\ ReportsReady => ReportsReady']_vars

\* With a retriever installed, a later process/load call has failed after
\* replacing the index handle, a query has returned, and readiness is reported.
C14_Witness ==
    /\ ReportsReady
    /\ w.pc = "idle" /\ w.ret = "failure" /\ retriever.store # vector_store
    /\ q.pc = "done"

\* Some get_system_info answer reports a backend type other than t.
ReportsOtherThan(t) ==
    \E info \in GetSystemInfo :
        "vector_store_type" \in DOMAIN info /\ info.vector_store_type # t

\* C15: whenever no process/load call is under way, the backend type
\* get_system_info reports is the backend of the active index, qdrant or
\* faiss, and "none" exactly when no index is active.
C15_ReportsActiveBackend ==
    w.pc = "idle" => ~ReportsOtherThan(vector_store.backend)

====
